---- MODULE Spec2Model ----
(***************************************************************************)
(* reqtest (src/reqtest/main.go): one binary with two modes.               *)
(*   listen <address>  HTTP server whose single handler logs the size of   *)
(*                     every non-GET request body, optionally after a      *)
(*                     delay (-resp-delay).                                *)
(*   send <url>        issues blocking PUT requests whose body sizes are   *)
(*                     2^start, 2^(start+1), ..., 2^end bytes              *)
(*                     (-start-step, -end-step).                           *)
(*                                                                         *)
(* The model runs two invocations of the binary side by side: one on the   *)
(* listening side (its first argument is anything but "send") and one on   *)
(* the sending side (its first argument is anything but "listen").  Both   *)
(* go through the same dispatch of main.  The network, foreign clients of  *)
(* the listener and a foreign server answering the sender are the          *)
(* environment.                                                            *)
(*                                                                         *)
(* Go's int is modelled with its width: a value is the set of the bit      *)
(* positions that are 1 in its two's complement representation, so 2^k is  *)
(* {k}, shifts drop the bits that leave the word and bit IntSize-1 is the  *)
(* sign.  IntSize is 64, the width of int on the 64-bit targets of the Go  *)
(* toolchain.                                                              *)
(***************************************************************************)
EXTENDS Integers, Sequences, FiniteSets, TLC

VARIABLES
    argsS,          \* flag.Args() of the sending invocation
    sendStartStep,  \* *sendStartStep of the sending invocation
    sendEndStep,    \* *sendEndStep of the sending invocation
    pcS,            \* "main", "loop" (top of the for loop), "do" (inside client.Do), "exited"
    exitS,          \* exit status of the sending invocation, NotExited while it runs
    errS,           \* the error send returned ("" for nil or not returned)
    start,          \* local start of send
    end,            \* local end of send
    maxBytes,       \* local maxBytes of send (an int)
    bytesToSend,    \* local bytesToSend of send (an int)
    logS,           \* log output of the sending invocation
    reqs,           \* every request client.Do was called with, in order
    resps,          \* what every returned client.Do returned, in order
    inflight,       \* the request client.Do is blocked on, or NoReq
    argsL,          \* flag.Args() of the listening invocation
    respDelay,      \* *respDelay of the listening invocation, in clock ticks
    pcL,            \* "main", "serving", "exited"
    exitL,          \* exit status of the listening invocation
    errL,           \* the error listen returned
    logL,           \* log output of the listening invocation
    handlers,       \* the running handler goroutines, by request id
    served,         \* the requests whose handler has returned, in order of return
    nextId          \* id of the next request the listener accepts

vars == <<argsS, sendStartStep, sendEndStep, pcS, exitS, errS, start, end,
          maxBytes, bytesToSend, logS, reqs, resps, inflight,
          argsL, respDelay, pcL, exitL, errL, logL, handlers, served, nextId>>

varsS == <<argsS, sendStartStep, sendEndStep, pcS, exitS, errS, start, end,
           maxBytes, bytesToSend, logS, reqs, resps>>

varsL == <<argsL, respDelay, pcL, exitL, errL, logL, handlers, served, nextId>>

----------------------------------------------------------------------------
(* Bounds of the model.                                                    *)

\* flag values run from -NegSteps to MaxStep
NegSteps == 1
MaxStep == 33
\* resp-delay runs from 0 to MaxDelay ticks of the clock
MaxDelay == 2
\* requests of foreign clients the listener accepts
MaxEnvReqs == 2
\* body sizes of foreign clients' requests run from 0 to MaxEnvLen bytes
MaxEnvLen == 1

----------------------------------------------------------------------------
(* Go's int.                                                               *)

IntSize == 64

Bits == 0..(IntSize - 1)

IsNeg(x) == (IntSize - 1) \in x

\* x << n for an int x and an unsigned count n
Shl(x, n) == {i + n : i \in x} \cap Bits

\* x >> 1 of a non-negative x
Shr1(x) == {i - 1 : i \in x \ {0}}

\* x + 1
Inc(x) ==
    LET zeros == Bits \ x
    IN  IF zeros = {} THEN {}
        ELSE LET z == CHOOSE k \in zeros : \A j \in zeros : k <= j
             IN  {i \in x : i > z} \cup {z}

\* -x
Neg(x) == Inc(Bits \ x)

\* x / 2, which Go truncates toward zero
Quo2(x) == IF IsNeg(x) THEN Neg(Shr1(Neg(x))) ELSE Shr1(x)

\* a <= b on signed ints
Lte(a, b) ==
    IF a = b THEN TRUE
    ELSE IF IsNeg(a) # IsNeg(b) THEN IsNeg(a)
    ELSE LET diff == (a \ b) \cup (b \ a)
             top  == CHOOSE k \in diff : \A j \in diff : j <= k
         IN  top \in b

\* the int with value n, for a natural n
RECURSIVE IntOf(_)
IntOf(n) == IF n = 0 THEN {} ELSE Inc(IntOf(n - 1))

----------------------------------------------------------------------------
(* Program constants.                                                      *)

DefaultStart == 1
DefaultEnd == 25
StepLimit == 32
StatusOK == 200
StatusInternalServerError == 500

(* Values of the model that are not the program's.                         *)

NotExited == -1         \* exit status of an invocation that still runs
TransportError == -1    \* client.Do returned an error instead of a response
NoStatus == 0           \* no response yet
NoReq == [id |-> 0, method |-> "", len |-> {}, accepted |-> FALSE, resp |-> NoStatus]

ListenAddr == ":8080"               \* an address the listener can bind
BadAddr == "nowhere:http:x"         \* an address net.Listen rejects
ListenerUrl == "http://localhost:8080"  \* the URL of the listening invocation
OtherUrl == "http://other.example"  \* the URL of a foreign server
BadUrl == "%zz"                     \* a string url.Parse rejects

UrlParses(u) == u # BadUrl
AddrBinds(a) == a # BadAddr

\* the flag values the model draws from
StepValues == (0 - NegSteps)..MaxStep

\* command lines of the sending invocation (never "listen")
ArgLinesS ==
    { <<>>, <<"bogus">>, <<"send">>, <<"send", OtherUrl, "extra">> }
    \cup { <<"send", u>> : u \in {ListenerUrl, OtherUrl, BadUrl} }

\* command lines of the listening invocation (never "send")
ArgLinesL ==
    { <<>>, <<"bogus">>, <<"listen">>, <<"listen", ListenAddr, "extra">> }
    \cup { <<"listen", a>> : a \in {ListenAddr, BadAddr} }

----------------------------------------------------------------------------
(* main                                                                    *)

\* which branch main takes for the positional arguments a
Dispatch(a) ==
    IF Len(a) = 0 THEN "usage"
    ELSE IF a[1] = "listen" THEN "listen"
    ELSE IF a[1] = "send" THEN "send"
    ELSE "unknown"

\* args[1:]
Rest(a) == SubSeq(a, 2, Len(a))

\* the check listen and send make of their arguments
ArgCountAtLeastOne(a) == Len(a) >= 1

ArgCountOk(a) == Len(a) = 1

----------------------------------------------------------------------------
(* send                                                                    *)

\* the flag handling of send without the comparison of end with start
SendSetupNoOrder(sf, ef) ==
    IF sf > 0 /\ sf >= StepLimit
    THEN [err |-> "start-step cannot be greater than 31", start |-> DefaultStart, end |-> DefaultEnd]
    ELSE LET s == IF sf > 0 THEN sf ELSE DefaultStart
         IN  IF ef > 0 /\ ef >= StepLimit
             THEN [err |-> "end-step cannot be greater than 31", start |-> s, end |-> DefaultEnd]
             ELSE [err |-> "", start |-> s, end |-> IF ef > 0 THEN ef ELSE DefaultEnd]

\* the flag handling of send taking a step of 0 as given
SendSetupZero(sf, ef) ==
    IF sf >= 0 /\ sf >= StepLimit
    THEN [err |-> "start-step cannot be greater than 31", start |-> DefaultStart, end |-> DefaultEnd]
    ELSE LET s == IF sf >= 0 THEN sf ELSE DefaultStart
         IN  IF ef >= 0 /\ ef >= StepLimit
             THEN [err |-> "end-step cannot be greater than 31", start |-> s, end |-> DefaultEnd]
             ELSE LET e == IF ef >= 0 THEN ef ELSE DefaultEnd
                  IN  IF e < s
                      THEN [err |-> "end-step cannot be less than start-step", start |-> s, end |-> e]
                      ELSE [err |-> "", start |-> s, end |-> e]

\* the flag handling of send: the error it returns, or start and end
SendSetup(sf, ef) ==
    IF sf > 0 /\ sf >= StepLimit
    THEN [err |-> "start-step cannot be greater than 31", start |-> DefaultStart, end |-> DefaultEnd]
    ELSE LET s == IF sf > 0 THEN sf ELSE DefaultStart
         IN  IF ef > 0 /\ ef >= StepLimit
             THEN [err |-> "end-step cannot be greater than 31", start |-> s, end |-> DefaultEnd]
             ELSE LET e == IF ef > 0 THEN ef ELSE DefaultEnd
                  IN  IF e < s
                      THEN [err |-> "end-step cannot be less than start-step", start |-> s, end |-> e]
                      ELSE [err |-> "", start |-> s, end |-> e]

\* the body sent as the raw bytes, not their hex digits
EncodedLenRaw(n) == n

\* len(hex.EncodeToString(b)) for len(b) = n: two digits per byte
EncodedLen(n) == Shl(n, 1)

\* a loop that stops before maxBytes
LoopCondStrict(b, m) == b # m /\ Lte(b, m)

\* the loop condition of send
LoopCond(b, m) == Lte(b, m)

\* a loop that does not grow the size
NextSizeStuck(b) == b

\* the step of the loop
NextSize(b) == Shl(b, 1)

Entry(m, n) == [msg |-> m, n |-> n]

\* send returned err (or nil, "") to main, which logs and exits
ReturnToMainS(err, lg) ==
    /\ errS' = err
    /\ pcS' = "exited"
    /\ exitS' = IF err = "" THEN 0 ELSE 1
    /\ logS' = IF err = "" THEN lg ELSE Append(lg, Entry("failed to send: " \o err, {}))

\* main of the sending invocation, and send up to its loop
MainS ==
    /\ pcS = "main"
    /\ LET d == Dispatch(argsS) IN
       /\ d # "listen"
       /\ CASE d = "usage" ->
                 /\ pcS' = "exited" /\ exitS' = 1
                 /\ UNCHANGED <<errS, logS, start, end, maxBytes, bytesToSend>>
            [] d = "unknown" ->
                 /\ pcS' = "exited" /\ exitS' = 1
                 /\ logS' = Append(logS, Entry("unknown arg " \o argsS[1], {}))
                 /\ UNCHANGED <<errS, start, end, maxBytes, bytesToSend>>
            [] d = "send" /\ ~ArgCountOk(Rest(argsS)) ->
                 /\ ReturnToMainS("send expects exactly 1 argument", logS)
                 /\ UNCHANGED <<start, end, maxBytes, bytesToSend>>
            [] OTHER ->
                 LET r == SendSetup(sendStartStep, sendEndStep) IN
                 /\ start' = r.start
                 /\ end' = r.end
                 /\ IF r.err # ""
                    THEN /\ ReturnToMainS(r.err, logS)
                         /\ UNCHANGED <<maxBytes, bytesToSend>>
                    ELSE /\ maxBytes' = Shl({0}, r.end)
                         /\ bytesToSend' = Shl({0}, r.start)
                         /\ pcS' = "loop"
                         /\ UNCHANGED <<errS, exitS, logS>>
    /\ UNCHANGED <<argsS, sendStartStep, sendEndStep, reqs, resps, inflight>>
    /\ UNCHANGED varsL

\* one pass from the top of the loop to the call of client.Do, or out of send;
\* randOk is whether rand.Read succeeds
SendLoop(randOk) ==
    /\ pcS = "loop"
    /\ IF ~LoopCond(bytesToSend, maxBytes)
       THEN /\ randOk
            /\ ReturnToMainS("", logS)
            /\ UNCHANGED <<reqs, inflight>>
       ELSE LET lg == Append(logS, Entry("sending", bytesToSend))
                n  == Quo2(bytesToSend)
            IN  IF IsNeg(n)
                THEN \* make([]byte, n) panics
                     /\ randOk
                     /\ pcS' = "exited" /\ exitS' = 2
                     /\ logS' = Append(lg, Entry("panic: makeslice: len out of range", {}))
                     /\ UNCHANGED <<errS, reqs, inflight>>
                ELSE IF ~randOk
                THEN /\ ReturnToMainS("failed to generate bytes", lg)
                     /\ UNCHANGED <<reqs, inflight>>
                ELSE IF ~UrlParses(argsS[2])
                THEN /\ ReturnToMainS("could make request", lg)
                     /\ UNCHANGED <<reqs, inflight>>
                ELSE LET r == [id |-> Len(reqs) + 1, method |-> "PUT",
                               len |-> EncodedLen(n), accepted |-> FALSE, resp |-> NoStatus]
                     IN  /\ reqs' = Append(reqs, r)
                         /\ inflight' = r
                         /\ pcS' = "do"
                         /\ logS' = lg
                         /\ UNCHANGED <<errS, exitS>>
    /\ UNCHANGED <<argsS, sendStartStep, sendEndStep, start, end, maxBytes, bytesToSend, resps>>
    /\ UNCHANGED varsL

\* send looking at the transport error only, not at the status
AfterDoErrOnly(st) ==
    IF st = TransportError THEN "could not execute request" ELSE ""

\* what send does with the status st that client.Do returned
AfterDo(st) ==
    IF st = TransportError THEN "could not execute request"
    ELSE IF st # StatusOK THEN "did not get 200 response"
    ELSE ""

\* client.Do returns, and send goes on to the next size or returns
DoReturn ==
    /\ pcS = "do"
    /\ inflight.resp # NoStatus
    /\ resps' = Append(resps, inflight.resp)
    /\ inflight' = NoReq
    /\ LET err == AfterDo(inflight.resp) IN
       IF err # ""
       THEN /\ ReturnToMainS(err, logS)
            /\ UNCHANGED bytesToSend
       ELSE /\ bytesToSend' = NextSize(bytesToSend)
            /\ pcS' = "loop"
            /\ UNCHANGED <<errS, exitS, logS>>
    /\ UNCHANGED <<argsS, sendStartStep, sendEndStep, start, end, maxBytes, reqs>>
    /\ UNCHANGED varsL

----------------------------------------------------------------------------
(* The environment of the sender.                                          *)

\* the statuses a foreign server answers with
Statuses == {StatusOK, 404, StatusInternalServerError}

\* a foreign server answers the outstanding request
EnvRespond(st) ==
    /\ pcS = "do"
    /\ inflight.resp = NoStatus
    /\ argsS[2] = OtherUrl
    /\ inflight' = [inflight EXCEPT !.resp = st]
    /\ UNCHANGED <<varsS, varsL>>

\* the connection fails: it is refused (nothing listens at the URL) or breaks
\* (a foreign server, or the listening invocation has exited)
ConnFail ==
    /\ pcS = "do"
    /\ inflight.resp = NoStatus
    /\ IF argsS[2] = ListenerUrl THEN pcL # "serving" ELSE TRUE
    /\ inflight' = [inflight EXCEPT !.resp = TransportError]
    /\ UNCHANGED <<varsS, varsL>>

----------------------------------------------------------------------------
(* listen                                                                  *)

LogL(m, n, id) == [msg |-> m, n |-> n, rid |-> id]

\* listen returned err to main, which logs and exits; the process is gone
\* and its goroutines with it
ReturnToMainL(err, lg) ==
    /\ errL' = err
    /\ pcL' = "exited"
    /\ exitL' = 1
    /\ logL' = Append(lg, LogL("failed to listen: " \o err, {}, 0))
    /\ handlers' = <<>>

\* main of the listening invocation, and listen up to http.ListenAndServe
MainL ==
    /\ pcL = "main"
    /\ LET d == Dispatch(argsL) IN
       /\ d # "send"
       /\ CASE d = "usage" ->
                 /\ pcL' = "exited" /\ exitL' = 1
                 /\ UNCHANGED <<errL, logL, handlers>>
            [] d = "unknown" ->
                 /\ pcL' = "exited" /\ exitL' = 1
                 /\ logL' = Append(logL, LogL("unknown arg " \o argsL[1], {}, 0))
                 /\ UNCHANGED <<errL, handlers>>
            [] d = "listen" /\ ~ArgCountOk(Rest(argsL)) ->
                 ReturnToMainL("listen expects exactly 1 argument", logL)
            [] OTHER ->
                 LET lg == Append(logL, LogL("listening on " \o argsL[2], {}, 0)) IN
                 IF AddrBinds(argsL[2])
                 THEN /\ pcL' = "serving"
                      /\ logL' = lg
                      /\ UNCHANGED <<errL, exitL, handlers>>
                 ELSE ReturnToMainL("listen tcp: cannot bind", lg)
    /\ UNCHANGED <<argsL, respDelay, served, nextId>>
    /\ UNCHANGED <<varsS, inflight>>

\* http.ListenAndServe returns (it only ever returns an error)
ServeFail ==
    /\ pcL = "serving"
    /\ ReturnToMainL("accept failed", logL)
    /\ UNCHANGED <<argsL, respDelay, served, nextId>>
    /\ UNCHANGED <<varsS, inflight>>

\* the server starts the handler on a request
NewHandler(m, n, src, req) ==
    [method |-> m, len |-> n, src |-> src, req |-> req, hpc |-> "start", slept |-> 0]

Without(f, h) == [k \in DOMAIN f \ {h} |-> f[k]]

With(f, h, v) == [k \in DOMAIN f \cup {h} |-> IF k = h THEN v ELSE f[k]]

\* the listener accepts the sender's outstanding request
Accept ==
    /\ pcL = "serving"
    /\ pcS = "do"
    /\ argsS[2] = ListenerUrl
    /\ inflight.resp = NoStatus
    /\ ~inflight.accepted
    /\ handlers' = With(handlers, nextId,
                        NewHandler(inflight.method, inflight.len, "sender", inflight.id))
    /\ nextId' = nextId + 1
    /\ inflight' = [inflight EXCEPT !.accepted = TRUE]
    /\ UNCHANGED <<argsL, respDelay, pcL, exitL, errL, logL, served>>
    /\ UNCHANGED varsS

\* the handler of request h returns with status st (200 unless it wrote a
\* header); the response reaches the sender if the request was the sender's
Finish(h, st, lg) ==
    /\ served' = Append(served, [id |-> h, method |-> handlers[h].method,
                                 len |-> handlers[h].len, src |-> handlers[h].src,
                                 req |-> handlers[h].req,
                                 slept |-> handlers[h].slept, status |-> st])
    /\ handlers' = Without(handlers, h)
    /\ logL' = lg
    /\ IF handlers[h].src = "sender" /\ pcS = "do" /\ inflight.id = handlers[h].req
       THEN inflight' = [inflight EXCEPT !.resp = st]
       ELSE UNCHANGED inflight

\* a handler that ignores PUT as well
IgnoredPut(m) == m \in {"GET", "PUT"}

\* whether the handler ignores a request of method m
Ignored(m) == m = "GET"

\* whether the handler sleeps for a resp-delay of d
Sleeps(d) == d > 0

\* the handler from its entry to time.Sleep or io.ReadAll
HandlerStart(h) ==
    /\ pcL = "serving"
    /\ h \in DOMAIN handlers
    /\ handlers[h].hpc = "start"
    /\ IF Ignored(handlers[h].method)
       THEN Finish(h, StatusOK, logL)
       ELSE LET lg == Append(logL, LogL("received request", {}, h)) IN
            /\ IF Sleeps(respDelay)
               THEN /\ logL' = Append(lg, LogL("waiting before reading/responding...", {}, h))
                    /\ handlers' = [handlers EXCEPT ![h].hpc = "sleep"]
               ELSE /\ logL' = lg
                    /\ handlers' = [handlers EXCEPT ![h].hpc = "read"]
            /\ UNCHANGED <<served, inflight>>
    /\ UNCHANGED <<argsL, respDelay, pcL, exitL, errL, nextId>>
    /\ UNCHANGED varsS

\* a sleep that is one tick short
SleepOverEarly(t, d) == t >= d - 1

\* whether a sleep of d is over after t ticks
SleepOver(t, d) == t >= d

\* the clock ticks: every sleeping handler has slept one tick more (what a
\* handler slept beyond resp-delay is not kept)
Tick ==
    /\ pcL = "serving"
    /\ \E h \in DOMAIN handlers :
           handlers[h].hpc = "sleep" /\ handlers[h].slept < respDelay
    /\ handlers' = [h \in DOMAIN handlers |->
                        IF handlers[h].hpc = "sleep" /\ handlers[h].slept < respDelay
                        THEN [handlers[h] EXCEPT !.slept = @ + 1]
                        ELSE handlers[h]]
    /\ UNCHANGED <<argsL, respDelay, pcL, exitL, errL, logL, served, nextId>>
    /\ UNCHANGED <<varsS, inflight>>

\* time.Sleep returns
HandlerWake(h) ==
    /\ pcL = "serving"
    /\ h \in DOMAIN handlers
    /\ handlers[h].hpc = "sleep"
    /\ SleepOver(handlers[h].slept, respDelay)
    /\ handlers' = [handlers EXCEPT ![h].hpc = "read"]
    /\ UNCHANGED <<argsL, respDelay, pcL, exitL, errL, logL, served, nextId>>
    /\ UNCHANGED <<varsS, inflight>>

\* the size the handler logs for a body of n bytes
BodySize(n) == n

\* io.ReadAll returns, with the body (readOk) or an error, and the handler returns
HandlerRead(h, readOk) ==
    /\ pcL = "serving"
    /\ h \in DOMAIN handlers
    /\ handlers[h].hpc = "read"
    /\ IF readOk
       THEN Finish(h, StatusOK, Append(logL, LogL("read bytes from body", BodySize(handlers[h].len), h)))
       ELSE Finish(h, StatusInternalServerError, Append(logL, LogL("error reading body", {}, h)))
    /\ UNCHANGED <<argsL, respDelay, pcL, exitL, errL, nextId>>
    /\ UNCHANGED varsS

----------------------------------------------------------------------------
(* The environment of the listener.                                        *)

Methods == {"GET", "PUT", "POST"}

EnvLens == {IntOf(n) : n \in 0..MaxEnvLen}

EnvCount ==
    Cardinality({h \in DOMAIN handlers : handlers[h].src = "env"})
    + Cardinality({i \in 1..Len(served) : served[i].src = "env"})

\* a foreign client sends a request of method m with a body of n bytes
EnvRequest(m, n) ==
    /\ pcL = "serving"
    /\ EnvCount < MaxEnvReqs
    /\ handlers' = With(handlers, nextId, NewHandler(m, n, "env", 0))
    /\ nextId' = nextId + 1
    /\ UNCHANGED <<argsL, respDelay, pcL, exitL, errL, logL, served>>
    /\ UNCHANGED <<varsS, inflight>>

----------------------------------------------------------------------------
(* Specifications.                                                         *)

InitS(lines) ==
    /\ argsS \in lines
    /\ sendStartStep \in StepValues
    /\ sendEndStep \in StepValues
    /\ pcS = "main"
    /\ exitS = NotExited
    /\ errS = ""
    /\ start = DefaultStart
    /\ end = DefaultEnd
    /\ maxBytes = {}
    /\ bytesToSend = {}
    /\ logS = <<>>
    /\ reqs = <<>>
    /\ resps = <<>>
    /\ inflight = NoReq

InitL(lines) ==
    /\ argsL \in lines
    /\ respDelay \in 0..MaxDelay
    /\ pcL = "main"
    /\ exitL = NotExited
    /\ errL = ""
    /\ logL = <<>>
    /\ handlers = <<>>
    /\ served = <<>>
    /\ nextId = 1

\* command lines that make no use of a foreign server or of a foreign client
Malformed(lines) == {a \in lines : Len(a) # 2}

\* the sender and the listener together: the sender is pointed at the listener
Init ==
    /\ InitS(Malformed(ArgLinesS) \cup {<<"send", ListenerUrl>>})
    /\ InitL(ArgLinesL)

Next ==
    \/ MainS
    \/ \E ok \in BOOLEAN : SendLoop(ok)
    \/ DoReturn
    \/ ConnFail
    \/ MainL
    \/ ServeFail
    \/ Accept
    \/ \E h \in DOMAIN handlers : HandlerStart(h)
    \/ Tick
    \/ \E h \in DOMAIN handlers : HandlerWake(h)
    \/ \E h \in DOMAIN handlers, ok \in BOOLEAN : HandlerRead(h, ok)

Spec == Init /\ [][Next]_vars

\* the sender against a foreign server; the listening invocation is never started
InitSend ==
    /\ InitS(ArgLinesS \ {<<"send", ListenerUrl>>})
    /\ InitL({<<>>})
    /\ respDelay = 0

NextSend ==
    \/ MainS
    \/ \E ok \in BOOLEAN : SendLoop(ok)
    \/ DoReturn
    \/ \E st \in Statuses : EnvRespond(st)
    \/ ConnFail

SpecSend == InitSend /\ [][NextSend]_vars

\* the listener against foreign clients; the sending invocation is never started
InitListen ==
    /\ InitS({<<>>})
    /\ sendStartStep = DefaultStart
    /\ sendEndStep = DefaultEnd
    /\ InitL(ArgLinesL)

NextListen ==
    \/ MainL
    \/ ServeFail
    \/ \E m \in Methods, n \in EnvLens : EnvRequest(m, n)
    \/ \E h \in DOMAIN handlers : HandlerStart(h)
    \/ Tick
    \/ \E h \in DOMAIN handlers : HandlerWake(h)
    \/ \E h \in DOMAIN handlers, ok \in BOOLEAN : HandlerRead(h, ok)

SpecListen == InitListen /\ [][NextListen]_vars

\* the sender against a foreign server that answers or fails every request
\* in the end; the Go runtime keeps the one goroutine of send running
FairSpecSend ==
    /\ SpecSend
    /\ WF_vars(MainS)
    /\ WF_vars(\E ok \in BOOLEAN : SendLoop(ok))
    /\ WF_vars(DoReturn)
    /\ WF_vars(ConnFail \/ \E st \in Statuses : EnvRespond(st))

----------------------------------------------------------------------------
(* Properties.                                                             *)

\* the int 2^k
PowerOfTwo(k) == {k}

\* the command line selects send with exactly one argument
WellFormedS == Len(argsS) = 2 /\ argsS[1] = "send"

\* the sizes send announced ("sending N bytes"), in order
Announced ==
    LET a == SelectSeq(logS, LAMBDA e : e.msg = "sending")
    IN  [i \in 1..Len(a) |-> a[i].n]

\* the sizes the listener logged ("read N bytes from body"), in order
ReadSizes ==
    LET a == SelectSeq(logL, LAMBDA e : e.msg = "read bytes from body")
    IN  [i \in 1..Len(a) |-> a[i].n]

\* send stopped on a failure of its own machine: rand.Read or http.NewRequest
LocalFailure == errS \in {"failed to generate bytes", "could make request"}

\* the errors of send's flag validation
ValidationErrors ==
    { "start-step cannot be greater than 31",
      "end-step cannot be greater than 31",
      "end-step cannot be less than start-step" }

\* C1: for accepted steps 1 <= s <= e <= 31 the requests send issues are PUTs of
\* 2^s, 2^(s+1), ... bytes in this order and never more than e-s+1 of them; when
\* every one is answered 200 (and send's own machine does not fail) send returns
\* nil after exactly e-s+1 requests, the last of 2^e bytes, and the process
\* exits 0.  The flag defaults 1 and 25 are the instance s = 1, e = 25.
C1_PowersOfTwoInOrder ==
    (WellFormedS /\ sendStartStep \in 1..31 /\ sendEndStep \in sendStartStep..31) =>
        /\ Len(reqs) <= sendEndStep - sendStartStep + 1
        /\ \A i \in 1..Len(reqs) :
               /\ reqs[i].method = "PUT"
               /\ reqs[i].len = PowerOfTwo(sendStartStep + i - 1)
        /\ (/\ pcS = "exited"
            /\ ~LocalFailure
            /\ \A i \in 1..Len(resps) : resps[i] = StatusOK)
           => /\ Len(reqs) = sendEndStep - sendStartStep + 1
              /\ reqs[Len(reqs)].len = PowerOfTwo(sendEndStep)
              /\ errS = ""
              /\ exitS = 0

C1_Witness ==
    /\ WellFormedS
    /\ sendStartStep = 1 /\ sendEndStep = 25
    /\ pcS = "exited" /\ exitS = 0
    /\ Len(reqs) = 25
    /\ reqs[1].len = PowerOfTwo(1) /\ reqs[25].len = PowerOfTwo(25)

\* C2: at most one request is outstanding, and only while send is inside
\* client.Do; every request but the last was answered 200 before the next was
\* issued; a response that is not 200, or a transport error, is the last thing
\* send sees: it returns an error, sends nothing more and the process exits 1.
C2_SequentialFailLoudly ==
    /\ Len(reqs) - Len(resps) \in {0, 1}
    /\ (Len(reqs) - Len(resps) = 1) <=> (pcS = "do")
    /\ (pcS = "do") <=> (inflight # NoReq)
    /\ \A i \in 1..(Len(reqs) - 1) : resps[i] = StatusOK
    /\ \A i \in 1..Len(resps) :
          resps[i] # StatusOK =>
             /\ i = Len(resps) /\ i = Len(reqs)
             /\ pcS = "exited" /\ exitS = 1
             /\ errS \in {"could not execute request", "did not get 200 response"}
             /\ (resps[i] = TransportError) <=> (errS = "could not execute request")
             /\ logS[Len(logS)].msg = "failed to send: " \o errS

C2_Witness ==
    /\ Len(resps) = 3
    /\ resps[3] = StatusInternalServerError
    /\ Len(reqs) = 3
    /\ sendEndStep = 31
    /\ pcS = "exited" /\ exitS = 1

\* the step send uses for the flag value f with default d
Effective(f, d) == IF f > 0 THEN f ELSE d

\* C6: with start-step >= 32, or end-step >= 32, or the effective end step less
\* than the effective start step, send never enters its loop: no size is
\* announced, no request issued, and send returns a validation error (exit 1).
\* Every request ever sent has a size 2^k with 1 <= k <= 31.
C6_ValidatedBeforeSending ==
    /\ (\/ sendStartStep >= 32
        \/ sendEndStep >= 32
        \/ Effective(sendEndStep, 25) < Effective(sendStartStep, 1))
       => /\ reqs = <<>>
          /\ Announced = <<>>
          /\ pcS \in {"main", "exited"}
          /\ (pcS = "exited" /\ WellFormedS) => (errS \in ValidationErrors /\ exitS = 1)
    /\ \A i \in 1..Len(reqs) : \E k \in 1..31 : reqs[i].len = PowerOfTwo(k)

C6_Witness ==
    /\ WellFormedS
    /\ sendStartStep = 3 /\ sendEndStep = 2
    /\ pcS = "exited" /\ exitS = 1
    /\ errS = "end-step cannot be less than start-step"
    /\ reqs = <<>>

\* C7: the body of the i-th request has exactly the i-th announced number of
\* bytes, and every announced N is even and at least 2 (bit 0 is clear, some
\* higher bit is set, the sign bit is clear).
C7_BodyHasAnnouncedSize ==
    /\ Len(reqs) <= Len(Announced)
    /\ Len(Announced) <= Len(reqs) + 1
    /\ \A i \in 1..Len(reqs) : reqs[i].len = Announced[i]
    /\ \A i \in 1..Len(Announced) :
          /\ 0 \notin Announced[i]
          /\ Announced[i] # {}
          /\ ~IsNeg(Announced[i])

C7_Witness ==
    /\ Len(reqs) = 31
    /\ reqs[1].len = PowerOfTwo(1)
    /\ reqs[31].len = PowerOfTwo(31)
    /\ Announced[31] = PowerOfTwo(31)

\* C8 as stated: a non-positive end-step with a start-step greater than 25 is
\* reported as 'end-step cannot be less than start-step'.
C8_Original ==
    (WellFormedS /\ pcS = "exited" /\ sendEndStep <= 0 /\ sendStartStep > 25)
        => errS = "end-step cannot be less than start-step"

\* C8 (amended): a zero or negative start-step or end-step is never the reason
\* of a rejection and never used: send runs with start 1 in place of a
\* non-positive start-step and with end 25 in place of a non-positive end-step, so
\* no request has an empty or 1-byte body and the first size announced is never
\* below 2; a non-positive end-step with a start-step from 26 to 31 is reported
\* as 'end-step cannot be less than start-step', and with a start-step of 32 or
\* more as 'start-step cannot be greater than 31'.
C8_NonPositiveStepsDefaulted ==
    (WellFormedS /\ pcS # "main") =>
        /\ sendStartStep <= 0 =>
              /\ start = 1
              /\ errS # "start-step cannot be greater than 31"
              /\ (sendEndStep \in 1..31 => errS \notin ValidationErrors)
              /\ (Len(Announced) > 0 => Announced[1] = PowerOfTwo(1))
        /\ (sendEndStep <= 0 /\ sendStartStep < 32) =>
              /\ end = 25
              /\ errS # "end-step cannot be greater than 31"
              /\ (sendStartStep <= 25 => errS \notin ValidationErrors)
              /\ maxBytes = (IF sendStartStep <= 25 THEN PowerOfTwo(25) ELSE {})
        /\ (sendEndStep <= 0 /\ sendStartStep \in 26..31) =>
              /\ errS = "end-step cannot be less than start-step"
              /\ pcS = "exited" /\ exitS = 1
        /\ (sendEndStep <= 0 /\ sendStartStep >= 32) =>
              /\ errS = "start-step cannot be greater than 31"
              /\ pcS = "exited" /\ exitS = 1
        /\ \A i \in 1..Len(reqs) : reqs[i].len \notin {{}, PowerOfTwo(0)}
        /\ \A i \in 1..Len(Announced) : Announced[i] \notin {{}, PowerOfTwo(0)}

C8_Witness ==
    /\ WellFormedS
    /\ sendEndStep = 0 /\ sendStartStep = 26
    /\ pcS = "exited" /\ exitS = 1
    /\ errS = "end-step cannot be less than start-step"

\* the log entries of the listener about request h with message m
EntriesOf(h, m) == {i \in 1..Len(logL) : logL[i].rid = h /\ logL[i].msg = m}

\* C3: every request whose handler has returned without an error reading the
\* body, whatever its method, has exactly one 'read N bytes from body' entry in
\* the log, with N the length of its body.
C3_EveryRequestLogged ==
    \A i \in 1..Len(served) :
        served[i].status # StatusInternalServerError =>
            /\ Cardinality(EntriesOf(served[i].id, "read bytes from body")) = 1
            /\ \A j \in EntriesOf(served[i].id, "read bytes from body") :
                   logL[j].n = served[i].len

\* C4: a handler that got past the method check logs 'received request' first;
\* with resp-delay > 0 it then sleeps, and it has slept all of resp-delay before
\* it reads the body, before it logs a size or an error and before its response
\* exists; with resp-delay = 0 no handler ever sleeps or announces a wait, and
\* the handler goes from 'received request' straight to reading.
C4_DelayBeforeRead ==
    /\ \A h \in DOMAIN handlers :
          /\ handlers[h].hpc = "sleep" =>
                /\ respDelay > 0
                /\ EntriesOf(h, "received request") # {}
                /\ EntriesOf(h, "waiting before reading/responding...") # {}
                /\ EntriesOf(h, "read bytes from body") = {}
                /\ EntriesOf(h, "error reading body") = {}
          /\ handlers[h].hpc = "read" =>
                /\ handlers[h].slept = respDelay
                /\ EntriesOf(h, "received request") # {}
                /\ EntriesOf(h, "read bytes from body") = {}
                /\ EntriesOf(h, "error reading body") = {}
          /\ handlers[h].hpc = "start" =>
                /\ handlers[h].slept = 0
                /\ EntriesOf(h, "received request") = {}
    /\ \A i \in 1..Len(served) :
          served[i].method # "GET" =>
              /\ served[i].slept = respDelay
              /\ \A j \in 1..Len(logL) :
                    (logL[j].rid = served[i].id
                        /\ logL[j].msg \in {"read bytes from body", "error reading body"})
                    => \E k \in 1..(j - 1) :
                           logL[k].rid = served[i].id /\ logL[k].msg = "received request"
    /\ respDelay = 0 =>
          /\ \A h \in DOMAIN handlers : handlers[h].hpc # "sleep"
          /\ \A j \in 1..Len(logL) : logL[j].msg # "waiting before reading/responding..."
    /\ respDelay > 0 =>
          \A j \in 1..Len(logL) :
              logL[j].msg \in {"read bytes from body", "error reading body"}
              => EntriesOf(logL[j].rid, "waiting before reading/responding...") # {}

C4_Witness ==
    /\ respDelay = 2
    /\ \E i \in 1..Len(served) :
          /\ served[i].method = "POST"
          /\ served[i].slept = 2
          /\ served[i].status = StatusOK
    /\ \E h \in DOMAIN handlers : handlers[h].hpc = "sleep" /\ handlers[h].slept = 1

\* the command line is not 'listen <one argument>' or 'send <one argument>'
IllFormed(a) == Len(a) = 0 \/ a[1] \notin {"listen", "send"} \/ Len(a) # 2

\* C5: with an ill-formed command line the invocation never listens, is never
\* accepted a request, never sends one, and exits with status 1; an invocation
\* exits with status 0 only if its subcommand returned nil (which listen never
\* does), and with 1 whenever the subcommand returned an error.
C5_NetworkOnlyWhenWellFormed ==
    /\ IllFormed(argsS) =>
          /\ reqs = <<>> /\ inflight = NoReq /\ Announced = <<>>
          /\ pcS \in {"main", "exited"}
          /\ pcS = "exited" => exitS = 1
    /\ IllFormed(argsL) =>
          /\ pcL \in {"main", "exited"}
          /\ handlers = <<>> /\ served = <<>> /\ nextId = 1
          /\ \A j \in 1..Len(logL) : logL[j].msg # "listening on " \o ListenAddr
          /\ pcL = "exited" => exitL = 1
    /\ exitS = 0 => (WellFormedS /\ pcS = "exited" /\ errS = "")
    /\ exitL # 0
    /\ errS # "" => exitS = 1
    /\ errL # "" => exitL = 1
    /\ (pcS = "exited") <=> (exitS # NotExited)
    /\ (pcL = "exited") <=> (exitL # NotExited)

C5_Witness ==
    /\ argsL = <<"listen", ListenAddr, "extra">>
    /\ pcL = "exited" /\ exitL = 1
    /\ errL = "listen expects exactly 1 argument"
    /\ argsS = <<"bogus">>
    /\ pcS = "exited" /\ exitS = 1

\* a request of the sender met a transport error or an error reading its body
Faulted ==
    \/ \E i \in 1..Len(resps) : resps[i] = TransportError
    \/ \E i \in 1..Len(served) : served[i].status = StatusInternalServerError

\* C9: the listener answers 200 or 500, 500 exactly when reading the body
\* failed, and then it logs no size; the sizes the listener has logged are
\* always the first of the sizes the sender announced, in the same order; and
\* when send has ended after passing its flag validation with no transport
\* error, no body-read error and no failure of its own machine, it has
\* returned nil and the listener has logged exactly the sizes 2^start..2^end
\* that the sender announced.
C9_ListenerLogsWhatSenderSends ==
    /\ \A i \in 1..Len(served) :
          /\ served[i].status \in {StatusOK, StatusInternalServerError}
          /\ served[i].status = StatusInternalServerError <=>
                 EntriesOf(served[i].id, "error reading body") # {}
          /\ served[i].status = StatusInternalServerError =>
                 EntriesOf(served[i].id, "read bytes from body") = {}
          /\ served[i].status = StatusOK =>
                 Cardinality(EntriesOf(served[i].id, "read bytes from body")) = 1
    /\ Len(ReadSizes) <= Len(Announced)
    /\ \A i \in 1..Len(ReadSizes) : ReadSizes[i] = Announced[i]
    /\ (/\ WellFormedS /\ pcS = "exited"
        /\ errS \notin ValidationErrors
        /\ ~LocalFailure
        /\ ~Faulted)
       => /\ exitS = 0 /\ errS = ""
          /\ ReadSizes = Announced
          /\ ReadSizes = [i \in 1..(end - start + 1) |-> PowerOfTwo(start + i - 1)]
          /\ \A i \in 1..Len(resps) : resps[i] = StatusOK

C9_Witness ==
    /\ pcS = "exited" /\ exitS = 0
    /\ sendStartStep = 0 /\ sendEndStep = 31
    /\ respDelay = 2
    /\ Len(ReadSizes) = 31
    /\ ReadSizes[31] = PowerOfTwo(31)
    /\ ReadSizes = Announced

\* C10: send always ends when every issued request returns in the end; it
\* never issues more than end-start+1 <= 31 requests; and while a request is
\* unanswered no step of send is possible (the client has no timeout), so a
\* request that is never answered blocks send for good.
C10_SendTerminates ==
    /\ <>(pcS = "exited")
    /\ [](/\ Len(reqs) <= 31
          /\ (pcS # "main" /\ WellFormedS /\ errS \notin ValidationErrors)
                 => Len(reqs) <= end - start + 1
          /\ (pcS = "do" /\ inflight.resp = NoStatus)
                 => ~ENABLED (MainS \/ DoReturn \/ \E ok \in BOOLEAN : SendLoop(ok)))

C10_Witness ==
    /\ pcS = "exited"
    /\ exitS = 0
    /\ Len(reqs) = 31
    /\ end - start + 1 = 31

====
